---- MODULE Spec2Model ----
(***************************************************************************)
(* Image Finder (src/app.py): a Streamlit script that stores uploaded     *)
(* images on disk, captions them, indexes the caption's embedding in a    *)
(* Qdrant collection and resolves a text query to the nearest image.      *)
(*                                                                         *)
(* Every browser session runs the script top to bottom on each user       *)
(* event (and on st.rerun()).  A script run is modelled as a sequence of  *)
(* steps, one per access to something shared between sessions (the image  *)
(* directory, the Qdrant collection) or per external call that can raise. *)
(* Widgets are changed only between runs: the script is synchronous and   *)
(* the model does not interrupt a run in progress.  The OpenAI key is     *)
(* taken to be configured (lines 136-148 fall through).                   *)
(***************************************************************************)
EXTENDS Integers, FiniteSets, Sequences

\* ----------------------------------------------------------------- bounds
NumSessions == 2        \* concurrent browser sessions
NumNames    == 2        \* distinct upload file names
NumContents == 2        \* distinct image byte strings
NumTexts    == 2        \* distinct captions / query texts

Sessions == 1..NumSessions
Names    == 1..NumNames
Contents == 1..NumContents
Texts    == 1..NumTexts

\* ------------------------------------------------------------ vocabulary
NoFile    == -1                 \* no such file in IMAGES_PATH
EmptyFile == 0                  \* opened 'wb', nothing written yet
NoUpload  == <<0, 0>>           \* file_uploader returned None
NoText    == 0                  \* the empty string of a text_input
NoResult  == 0                  \* no image rendered by the search tab
Fault     == -1                 \* a call of the search tab raised
IndexFault == -2                \* [0] on an empty hit list raised IndexError
NoVector  == <<0, 0>>           \* no embedding held
Uploads   == Names \X Contents  \* UploadedFile: <<name, getvalue()>>

VARIABLES
    files,              \* IMAGES_PATH: name -> content | EmptyFile | NoFile
    collection_exists,  \* Qdrant has QDRANT_COLLECTION_NAME
    records,            \* the collection's points: id -> [vector, file_name]
    pc,                 \* per session: position of its script run
    button_clicked,     \* st.session_state['button_clicked']
    uploaded_image,     \* st.session_state['uploaded_image']
    uploaded_file,      \* value of the file_uploader widget
    search_image,       \* value of the search text_input widget
    button,             \* the run was triggered by a click on 'Zapisz obraz'
    button_shown,       \* how the last render drew the button
    image_description,  \* local of the store branch
    first_available_id, \* local of add_description_to_db
    query_vector,       \* get_embedding(...) awaiting its use
    result,             \* file name rendered by the search tab
    outcome,            \* how the session's latest run ended
    assure_calls,       \* history: assure_db_collection_exists calls, per session (capped)
    upserts,            \* history: number of successful upserts
    by_click,           \* history: the session's latest user event was the click
    events              \* history: user events so far (bounds the exploration)

vars == <<files, collection_exists, records, pc, button_clicked, uploaded_image,
          uploaded_file, search_image, button, button_shown, image_description,
          first_available_id, query_vector, result, outcome, assure_calls,
          upserts, by_click, events>>

disk     == <<files>>
qdrant   == <<collection_exists, records, upserts>>
state    == <<button_clicked, uploaded_image>>
widgets  == <<uploaded_file, search_image>>
locals   == <<image_description, first_available_id, query_vector>>

MaxAssure == 2          \* assure_calls counts up to this
MaxEvents == 6          \* user events explored when sessions run concurrently

\* ------------------------------------------------------ pure definitions
\* get_embedding: the embedding service as a fixed map from text to a vector
\* (two coordinates of it); distinct texts get distinct directions.
get_embedding(text) == <<text, NumTexts + 1 - text>>

Dot(a, b) == a[1] * b[1] + a[2] * b[2]

\* Distance.COSINE: a is at least as similar to q as b is.  All coordinates
\* are positive, so the cosines compare as their squares.
CosineGE(q, a, b) ==
    Dot(q, a) * Dot(q, a) * Dot(b, b) >= Dot(q, b) * Dot(q, b) * Dot(a, a)

\* Mutant of SearchTop1: a similarity threshold, only exact matches are hits.
SearchTop1Exact(q) ==
    {i \in DOMAIN records :
        Dot(q, records[i].vector) * Dot(q, records[i].vector)
            = Dot(q, q) * Dot(records[i].vector, records[i].vector)}

\* qdrant_client.search(..., limit=1): the ids that may come first.
SearchTop1(q) ==
    {i \in DOMAIN records :
        \A j \in DOMAIN records : CosineGE(q, records[i].vector, records[j].vector)}

\* Mutant of Count: an inexact count that lags one point behind.
CountStale == IF records = << >> THEN 0 ELSE Cardinality(DOMAIN records) - 1

\* qdrant_client.count(exact=True).count
Count == Cardinality(DOMAIN records)

\* Mutant of Exists: the check never finds the file.
ExistsNever(name) == FALSE

\* file_path.exists()
Exists(name) == files[name] # NoFile

\* Mutant of Upserted: insert only, a point whose id exists is kept.
InsertedOnly(id, vector, file_name) ==
    [i \in DOMAIN records \cup {id} |->
        IF i \in DOMAIN records THEN records[i]
        ELSE [vector |-> vector, file_name |-> file_name]]

\* qdrant_client.upsert: insert or replace by id
Upserted(id, vector, file_name) ==
    [i \in DOMAIN records \cup {id} |->
        IF i = id THEN [vector |-> vector, file_name |-> file_name] ELSE records[i]]

\* ------------------------------------------------------------------ Init
Init ==
    /\ files = [n \in Names |-> NoFile]
    /\ collection_exists = FALSE
    /\ records = << >>
    /\ pc = [s \in Sessions |-> "new"]
    /\ button_clicked = [s \in Sessions |-> FALSE]
    /\ uploaded_image = [s \in Sessions |-> NoUpload]
    /\ uploaded_file = [s \in Sessions |-> NoUpload]
    /\ search_image = [s \in Sessions |-> NoText]
    /\ button = [s \in Sessions |-> FALSE]
    /\ button_shown = [s \in Sessions |-> "none"]
    /\ image_description = [s \in Sessions |-> NoText]
    /\ first_available_id = [s \in Sessions |-> 0]
    /\ query_vector = [s \in Sessions |-> NoVector]
    /\ result = [s \in Sessions |-> NoResult]
    /\ outcome = [s \in Sessions |-> "none"]
    /\ assure_calls = [s \in Sessions |-> 0]
    /\ upserts = 0
    /\ by_click = [s \in Sessions |-> FALSE]
    /\ events = 0

\* ------------------------------------------------------------ script run
\* The script starts over: by a user event, or by st.rerun().
StartRun(s) ==
    /\ pc' = [pc EXCEPT ![s] = "assure"]
    /\ image_description' = [image_description EXCEPT ![s] = NoText]
    /\ first_available_id' = [first_available_id EXCEPT ![s] = 0]
    /\ query_vector' = [query_vector EXCEPT ![s] = NoVector]

\* A run ends: the script fell off its end or an exception stopped it.
EndRun(s) ==
    /\ pc' = [pc EXCEPT ![s] = "idle"]
    /\ image_description' = [image_description EXCEPT ![s] = NoText]
    /\ first_available_id' = [first_available_id EXCEPT ![s] = 0]
    /\ query_vector' = [query_vector EXCEPT ![s] = NoVector]

\* A browser opens the page: the session's first run.
OpenPage(s) ==
    /\ pc[s] = "new"
    /\ StartRun(s)
    /\ UNCHANGED <<disk, qdrant, state, widgets, button, button_shown, result,
                   outcome, assure_calls>>

\* Mutant of AssureCheck: the existence check is missing, every call creates.
AssureAlwaysCreates(s) ==
    /\ pc[s] = "assure"
    /\ assure_calls' = [assure_calls EXCEPT ![s] = IF @ < MaxAssure THEN @ + 1 ELSE @]
    /\ pc' = [pc EXCEPT ![s] = "create"]
    /\ UNCHANGED <<disk, qdrant, state, widgets, button, button_shown, locals,
                   result, outcome>>

\* assure_db_collection_exists, line 43: collection_exists(...)
AssureCheck(s) ==
    /\ pc[s] = "assure"
    /\ assure_calls' = [assure_calls EXCEPT ![s] = IF @ < MaxAssure THEN @ + 1 ELSE @]
    /\ pc' = [pc EXCEPT ![s] = IF collection_exists THEN "add_tab" ELSE "create"]
    /\ UNCHANGED <<disk, qdrant, state, widgets, button, button_shown, locals,
                   result, outcome>>

\* assure_db_collection_exists, lines 45-51: create_collection(...), which
\* Qdrant refuses for a collection that exists (another session created it
\* since the check): the exception ends the run before anything is drawn.
CreateCollection(s) ==
    /\ pc[s] = "create"
    /\ IF collection_exists
       THEN /\ EndRun(s)
            /\ outcome' = [outcome EXCEPT ![s] = "create_failed"]
            /\ button_shown' = [button_shown EXCEPT ![s] = "none"]
            /\ UNCHANGED collection_exists
       ELSE /\ collection_exists' = TRUE
            /\ pc' = [pc EXCEPT ![s] = "add_tab"]
            /\ UNCHANGED <<locals, outcome, button_shown>>
    /\ UNCHANGED <<disk, records, upserts, state, widgets, button, result,
                   assure_calls>>

\* Lines 172-177 with no file selected: the store tab draws no button.
NoUploadSelected(s) ==
    /\ pc[s] = "add_tab"
    /\ uploaded_file[s] = NoUpload
    /\ uploaded_image' = [uploaded_image EXCEPT ![s] = uploaded_file[s]]
    /\ button_shown' = [button_shown EXCEPT ![s] = "none"]
    /\ pc' = [pc EXCEPT ![s] = "search_tab"]
    /\ UNCHANGED <<disk, qdrant, button_clicked, widgets, button, locals, result,
                   outcome, assure_calls>>

\* Lines 179-182: the run was triggered by the click; set the guard, rerun.
ButtonPressed(s) ==
    /\ pc[s] = "add_tab"
    /\ uploaded_file[s] # NoUpload
    /\ button[s]
    /\ uploaded_image' = [uploaded_image EXCEPT ![s] = uploaded_file[s]]
    /\ button_shown' = [button_shown EXCEPT ![s] =
                            IF button_clicked[s] THEN "disabled" ELSE "enabled"]
    /\ button_clicked' = [button_clicked EXCEPT ![s] = TRUE]
    /\ button' = [button EXCEPT ![s] = FALSE]
    /\ outcome' = [outcome EXCEPT ![s] = "clicked"]
    /\ StartRun(s)
    /\ UNCHANGED <<disk, qdrant, widgets, result, assure_calls>>

\* Mutant of Conflict: the error is shown, the guard is left as it is.
ConflictKeepsGuard(s) ==
    /\ pc[s] = "add_tab"
    /\ uploaded_file[s] # NoUpload
    /\ ~button[s]
    /\ button_clicked[s]
    /\ Exists(uploaded_file[s][1])
    /\ uploaded_image' = [uploaded_image EXCEPT ![s] = uploaded_file[s]]
    /\ button_shown' = [button_shown EXCEPT ![s] = "disabled"]
    /\ outcome' = [outcome EXCEPT ![s] = "conflict"]
    /\ pc' = [pc EXCEPT ![s] = "search_tab"]
    /\ UNCHANGED <<disk, qdrant, button_clicked, widgets, button, locals, result,
                   assure_calls>>

\* Lines 184-188: guard set and the file exists: error, guard cleared.
Conflict(s) ==
    /\ pc[s] = "add_tab"
    /\ uploaded_file[s] # NoUpload
    /\ ~button[s]
    /\ button_clicked[s]
    /\ Exists(uploaded_file[s][1])
    /\ uploaded_image' = [uploaded_image EXCEPT ![s] = uploaded_file[s]]
    /\ button_shown' = [button_shown EXCEPT ![s] = "disabled"]
    /\ outcome' = [outcome EXCEPT ![s] = "conflict"]
    /\ button_clicked' = [button_clicked EXCEPT ![s] = FALSE]
    /\ pc' = [pc EXCEPT ![s] = "search_tab"]
    /\ UNCHANGED <<disk, qdrant, widgets, button, locals, result, assure_calls>>

\* Mutant of BeginStore: the existence check is skipped, the store begins
\* whether or not the file is there.
BeginStoreUnchecked(s) ==
    /\ pc[s] = "add_tab"
    /\ uploaded_file[s] # NoUpload
    /\ ~button[s]
    /\ button_clicked[s]
    /\ uploaded_image' = [uploaded_image EXCEPT ![s] = uploaded_file[s]]
    /\ button_shown' = [button_shown EXCEPT ![s] = "disabled"]
    /\ outcome' = [outcome EXCEPT ![s] = "storing"]
    /\ pc' = [pc EXCEPT ![s] = "save"]
    /\ UNCHANGED <<disk, qdrant, button_clicked, widgets, button, locals, result,
                   assure_calls>>

\* Lines 184-195: guard set and no such file: the store begins.
BeginStore(s) ==
    /\ pc[s] = "add_tab"
    /\ uploaded_file[s] # NoUpload
    /\ ~button[s]
    /\ button_clicked[s]
    /\ ~Exists(uploaded_file[s][1])
    /\ uploaded_image' = [uploaded_image EXCEPT ![s] = uploaded_file[s]]
    /\ button_shown' = [button_shown EXCEPT ![s] = "disabled"]
    /\ outcome' = [outcome EXCEPT ![s] = "storing"]
    /\ pc' = [pc EXCEPT ![s] = "save"]
    /\ UNCHANGED <<disk, qdrant, button_clicked, widgets, button, locals, result,
                   assure_calls>>

\* Lines 177-184 with the guard clear and no click: the button is drawn enabled.
NotBusy(s) ==
    /\ pc[s] = "add_tab"
    /\ uploaded_file[s] # NoUpload
    /\ ~button[s]
    /\ ~button_clicked[s]
    /\ uploaded_image' = [uploaded_image EXCEPT ![s] = uploaded_file[s]]
    /\ button_shown' = [button_shown EXCEPT ![s] = "enabled"]
    /\ pc' = [pc EXCEPT ![s] = "search_tab"]
    /\ UNCHANGED <<disk, qdrant, button_clicked, widgets, button, locals, result,
                   outcome, assure_calls>>

\* Mutant of SaveOpen: exclusive creation ('xb'), which raises on a file
\* that has appeared since the check and leaves it as it is.
SaveOpenExclusive(s) ==
    /\ pc[s] = "save"
    /\ IF files[uploaded_file[s][1]] = NoFile
       THEN /\ files' = [files EXCEPT ![uploaded_file[s][1]] = EmptyFile]
            /\ pc' = [pc EXCEPT ![s] = "write"]
            /\ UNCHANGED <<locals, outcome>>
       ELSE /\ outcome' = [outcome EXCEPT ![s] = "exception"]
            /\ EndRun(s)
            /\ UNCHANGED files
    /\ UNCHANGED <<qdrant, state, widgets, button, button_shown, result,
                   assure_calls>>

\* Mutant of SaveOpen: the image is not written under IMAGES_PATH at all.
SaveOpenElsewhere(s) ==
    /\ pc[s] = "save"
    /\ pc' = [pc EXCEPT ![s] = "describe"]
    /\ UNCHANGED <<disk, qdrant, state, widgets, button, button_shown, locals, result,
                   outcome, assure_calls>>

\* save_image, line 128: open(file_path, 'wb') creates or truncates the file.
SaveOpen(s) ==
    /\ pc[s] = "save"
    /\ files' = [files EXCEPT ![uploaded_file[s][1]] = EmptyFile]
    /\ pc' = [pc EXCEPT ![s] = "write"]
    /\ UNCHANGED <<qdrant, state, widgets, button, button_shown, locals, result,
                   outcome, assure_calls>>

\* save_image, line 129: file.write(uploaded_file.getvalue())
SaveWrite(s) ==
    /\ pc[s] = "write"
    /\ files' = [files EXCEPT ![uploaded_file[s][1]] = uploaded_file[s][2]]
    /\ pc' = [pc EXCEPT ![s] = "describe"]
    /\ UNCHANGED <<qdrant, state, widgets, button, button_shown, locals, result,
                   outcome, assure_calls>>

\* Mutant of DescribeImage: the caption is embedded as soon as it is known,
\* before the count is read.
DescribeThenEmbed(s) ==
    /\ pc[s] = "describe"
    /\ \E d \in Texts :
            /\ image_description' = [image_description EXCEPT ![s] = d]
            /\ query_vector' = [query_vector EXCEPT ![s] = get_embedding(d)]
    /\ pc' = [pc EXCEPT ![s] = "count"]
    /\ UNCHANGED <<disk, qdrant, state, widgets, button, button_shown,
                   first_available_id, result, outcome, assure_calls>>

\* describe_image: the captioning service answers with some text.
DescribeImage(s) ==
    /\ pc[s] = "describe"
    /\ \E d \in Texts : image_description' = [image_description EXCEPT ![s] = d]
    /\ pc' = [pc EXCEPT ![s] = "count"]
    /\ UNCHANGED <<disk, qdrant, state, widgets, button, button_shown,
                   first_available_id, query_vector, result, outcome, assure_calls>>

\* Mutant of CountRecords: off by one, the identifier is count + 2.
CountRecordsSkips(s) ==
    /\ pc[s] = "count"
    /\ first_available_id' = [first_available_id EXCEPT ![s] = Count + 2]
    /\ pc' = [pc EXCEPT ![s] = "embed"]
    /\ UNCHANGED <<disk, qdrant, state, widgets, button, button_shown,
                   image_description, query_vector, result, outcome, assure_calls>>

\* add_description_to_db, lines 67-70: count(...).count + 1
CountRecords(s) ==
    /\ pc[s] = "count"
    /\ first_available_id' = [first_available_id EXCEPT ![s] = Count + 1]
    /\ pc' = [pc EXCEPT ![s] = "embed"]
    /\ UNCHANGED <<disk, qdrant, state, widgets, button, button_shown,
                   image_description, query_vector, result, outcome, assure_calls>>

\* add_description_to_db, line 76: get_embedding(description), evaluated
\* while the arguments of upsert are built, after the count.
EmbedDescription(s) ==
    /\ pc[s] = "embed"
    /\ query_vector' = [query_vector EXCEPT ![s] = get_embedding(image_description[s])]
    /\ pc' = [pc EXCEPT ![s] = "upsert"]
    /\ UNCHANGED <<disk, qdrant, state, widgets, button, button_shown,
                   image_description, first_available_id, result, outcome,
                   assure_calls>>

\* Mutant of UpsertPoint: the success path forgets to clear the guard.
UpsertPointKeepsGuard(s) ==
    /\ pc[s] = "upsert"
    /\ records' = Upserted(first_available_id[s], query_vector[s], uploaded_file[s][1])
    /\ upserts' = upserts + 1
    /\ outcome' = [outcome EXCEPT ![s] = "success"]
    /\ StartRun(s)
    /\ UNCHANGED <<disk, collection_exists, state, widgets, button,
                   button_shown, result, assure_calls>>

\* add_description_to_db, lines 71-80, then lines 199-202: the point is
\* upserted, the guard cleared and the script rerun.
UpsertPoint(s) ==
    /\ pc[s] = "upsert"
    /\ records' = Upserted(first_available_id[s], query_vector[s], uploaded_file[s][1])
    /\ upserts' = upserts + 1
    /\ button_clicked' = [button_clicked EXCEPT ![s] = FALSE]
    /\ outcome' = [outcome EXCEPT ![s] = "success"]
    /\ StartRun(s)
    /\ UNCHANGED <<disk, collection_exists, uploaded_image, widgets, button,
                   button_shown, result, assure_calls>>

\* Mutant of StoreRaises: the failure is cleaned up, the saved file removed.
StoreRaisesRollsBack(s) ==
    /\ pc[s] \in {"describe", "count", "embed", "upsert"}
    /\ files' = [files EXCEPT ![uploaded_file[s][1]] = NoFile]
    /\ outcome' = [outcome EXCEPT ![s] = "exception"]
    /\ EndRun(s)
    /\ UNCHANGED <<qdrant, state, widgets, button, button_shown, result,
                   assure_calls>>

\* Mutant of StoreRaises: the guard is cleared on the way out (try/finally).
StoreRaisesClearsGuard(s) ==
    /\ pc[s] \in {"describe", "count", "embed", "upsert"}
    /\ button_clicked' = [button_clicked EXCEPT ![s] = FALSE]
    /\ outcome' = [outcome EXCEPT ![s] = "exception"]
    /\ EndRun(s)
    /\ UNCHANGED <<disk, qdrant, uploaded_image, widgets, button, button_shown,
                   result, assure_calls>>

\* An external call of the store branch raises (service, network, auth):
\* nothing catches it, the run ends where it is.
StoreRaises(s) ==
    /\ pc[s] \in {"describe", "count", "embed", "upsert"}
    /\ outcome' = [outcome EXCEPT ![s] = "exception"]
    /\ EndRun(s)
    /\ UNCHANGED <<disk, qdrant, state, widgets, button, button_shown, result,
                   assure_calls>>

\* Lines 205-206 with an empty search box: the run ends.
NoSearch(s) ==
    /\ pc[s] = "search_tab"
    /\ search_image[s] = NoText
    /\ result' = [result EXCEPT ![s] = NoResult]
    /\ EndRun(s)
    /\ UNCHANGED <<disk, qdrant, state, widgets, button, button_shown, outcome,
                   assure_calls>>

\* search_descriptions_in_db, line 87: get_embedding(user_search)
EmbedSearch(s) ==
    /\ pc[s] = "search_tab"
    /\ search_image[s] # NoText
    /\ query_vector' = [query_vector EXCEPT ![s] = get_embedding(search_image[s])]
    /\ pc' = [pc EXCEPT ![s] = "search"]
    /\ UNCHANGED <<disk, qdrant, state, widgets, button, button_shown,
                   image_description, first_available_id, result, outcome,
                   assure_calls>>

\* Mutant of SearchFound: the hit's id is taken instead of its file name.
SearchFoundId(s) ==
    /\ pc[s] = "search"
    /\ \E i \in SearchTop1(query_vector[s]) : result' = [result EXCEPT ![s] = i]
    /\ EndRun(s)
    /\ UNCHANGED <<disk, qdrant, state, widgets, button, button_shown, outcome,
                   assure_calls>>

\* search_descriptions_in_db, lines 85-89, and lines 208-211: the first hit's
\* file name is rendered.
SearchFound(s) ==
    /\ pc[s] = "search"
    /\ \E i \in SearchTop1(query_vector[s]) :
            result' = [result EXCEPT ![s] = records[i].file_name]
    /\ EndRun(s)
    /\ UNCHANGED <<disk, qdrant, state, widgets, button, button_shown, outcome,
                   assure_calls>>

\* search_descriptions_in_db, line 89 on an empty hit list: [0] raises
\* IndexError, which nothing catches.
SearchEmpty(s) ==
    /\ pc[s] = "search"
    /\ SearchTop1(query_vector[s]) = {}
    /\ result' = [result EXCEPT ![s] = IndexFault]
    /\ EndRun(s)
    /\ UNCHANGED <<disk, qdrant, state, widgets, button, button_shown, outcome,
                   assure_calls>>

\* The embedding call or the search of the search tab raises.
SearchRaises(s) ==
    /\ pc[s] \in {"search_tab", "search"}
    /\ search_image[s] # NoText
    /\ result' = [result EXCEPT ![s] = Fault]
    /\ EndRun(s)
    /\ UNCHANGED <<disk, qdrant, state, widgets, button, button_shown, outcome,
                   assure_calls>>

\* ------------------------------------------------------------ user events
\* What the last run drew is what the user can touch.
UploaderDrawn(s) == outcome[s] # "create_failed"
SearchBoxDrawn(s) == outcome[s] \notin {"create_failed", "exception"}

\* The user picks, replaces or removes the file of the file_uploader.
ChooseFile(s) ==
    /\ pc[s] = "idle"
    /\ UploaderDrawn(s)
    /\ \E u \in Uploads \cup {NoUpload} :
            /\ u # uploaded_file[s]
            /\ uploaded_file' = [uploaded_file EXCEPT ![s] = u]
    /\ button' = [button EXCEPT ![s] = FALSE]
    /\ outcome' = [outcome EXCEPT ![s] = "none"]
    /\ result' = [result EXCEPT ![s] = NoResult]
    /\ StartRun(s)
    /\ UNCHANGED <<disk, qdrant, state, search_image, button_shown, assure_calls>>

\* The user clicks 'Zapisz obraz', which was drawn enabled.
ClickButton(s) ==
    /\ pc[s] = "idle"
    /\ button_shown[s] = "enabled"
    /\ button' = [button EXCEPT ![s] = TRUE]
    /\ outcome' = [outcome EXCEPT ![s] = "none"]
    /\ result' = [result EXCEPT ![s] = NoResult]
    /\ StartRun(s)
    /\ UNCHANGED <<disk, qdrant, state, widgets, button_shown, assure_calls>>

\* The user changes the text of the search box.
TypeSearch(s) ==
    /\ pc[s] = "idle"
    /\ SearchBoxDrawn(s)
    /\ \E q \in Texts \cup {NoText} :
            /\ q # search_image[s]
            /\ search_image' = [search_image EXCEPT ![s] = q]
    /\ button' = [button EXCEPT ![s] = FALSE]
    /\ outcome' = [outcome EXCEPT ![s] = "none"]
    /\ result' = [result EXCEPT ![s] = NoResult]
    /\ StartRun(s)
    /\ UNCHANGED <<disk, qdrant, state, uploaded_file, button_shown, assure_calls>>

\* The user asks for a rerun (the app menu), widgets untouched.
Rerun(s) ==
    /\ pc[s] = "idle"
    /\ button' = [button EXCEPT ![s] = FALSE]
    /\ outcome' = [outcome EXCEPT ![s] = "none"]
    /\ result' = [result EXCEPT ![s] = NoResult]
    /\ StartRun(s)
    /\ UNCHANGED <<disk, qdrant, state, widgets, button_shown, assure_calls>>

\* ------------------------------------------------------------------ Next
\* A step of the script run of session s.
RunStep(s) ==
    \/ AssureCheck(s)
    \/ CreateCollection(s)
    \/ NoUploadSelected(s)
    \/ ButtonPressed(s)
    \/ Conflict(s)
    \/ BeginStore(s)
    \/ NotBusy(s)
    \/ SaveOpen(s)
    \/ SaveWrite(s)
    \/ DescribeImage(s)
    \/ CountRecords(s)
    \/ EmbedDescription(s)
    \/ UpsertPoint(s)
    \/ StoreRaises(s)
    \/ NoSearch(s)
    \/ EmbedSearch(s)
    \/ SearchFound(s)
    \/ SearchEmpty(s)
    \/ SearchRaises(s)

\* Something the user of session s does.
UserEvent(s) ==
    \/ OpenPage(s)
    \/ ChooseFile(s)
    \/ ClickButton(s)
    \/ TypeSearch(s)
    \/ Rerun(s)

\* The history of a user event: was it the click (the only event that sets
\* the button's value)?
Noted(s) == by_click' = [by_click EXCEPT ![s] = button'[s]]

\* Concurrent sessions, MaxEvents user events between them.
Next ==
    \E s \in Sessions :
        \/ RunStep(s) /\ UNCHANGED <<events, by_click>>
        \/ UserEvent(s) /\ Noted(s) /\ events < MaxEvents /\ events' = events + 1

Spec == Init /\ [][Next]_vars

\* One session acting alone (no concurrent writer), any number of events.
NextSingle ==
    \/ RunStep(1) /\ UNCHANGED <<events, by_click>>
    \/ UserEvent(1) /\ Noted(1) /\ UNCHANGED events

SpecSingle == Init /\ [][NextSingle]_vars

\* ---------------------------------------------------------------- claims
FileNames == {records[i].file_name : i \in DOMAIN records}

\* C1: a store run that reaches the existence check (guard set, upload
\* selected) while a file of the upload's name is in the image directory
\* shows the conflict error and goes on to the search tab without touching
\* the vector store: the files, the records and the number of upserts are
\* unchanged by the step, and the guard is cleared.
C1_ConflictChangesNothing ==
    [][\A s \in Sessions :
          (/\ pc[s] = "add_tab"
           /\ pc'[s] # "add_tab"
           /\ uploaded_file[s] # NoUpload
           /\ button_clicked[s]
           /\ files[uploaded_file[s][1]] # NoFile)
          => /\ outcome'[s] = "conflict"
             /\ pc'[s] = "search_tab"
             /\ files' = files
             /\ records' = records
             /\ upserts' = upserts
             /\ ~button_clicked'[s]]_vars

\* C1 witness: a conflict was shown for an upload whose name is on disk with
\* other bytes and has a record.
C1_Witness ==
    \E s \in Sessions :
        /\ outcome[s] = "conflict"
        /\ uploaded_file[s] # NoUpload
        /\ files[uploaded_file[s][1]] \in Contents
        /\ files[uploaded_file[s][1]] # uploaded_file[s][2]
        /\ uploaded_file[s][1] \in FileNames

\* C2: with one session acting alone, the k-th successful store is assigned
\* identifier k: the identifiers in the collection are exactly 1..N after N
\* successful stores, and the store about to upsert holds N + 1.
C2_SequentialIds ==
    /\ DOMAIN records = 1..upserts
    /\ \A s \in Sessions : pc[s] = "upsert" => first_available_id[s] = upserts + 1

\* C2 witness: two successful stores, two records.
C2_Witness == upserts >= 2 /\ Cardinality(DOMAIN records) = upserts

\* C3 (as claimed): a search never ends in the fault of taking the first
\* element of an empty hit list.
C3_NoFaultOnEmptySearch == \A s \in Sessions : result[s] # IndexFault

\* C4: the guard goes from False to True only in a run triggered by a click
\* with an upload selected, and a store run that ended in success or in the
\* handled conflict leaves the guard False.
C4_BusyGuard ==
    [][\A s \in Sessions :
          /\ (~button_clicked[s] /\ button_clicked'[s])
                => (pc[s] = "add_tab" /\ button[s] /\ uploaded_file[s] # NoUpload)
          /\ (pc[s] = "upsert" /\ pc'[s] = "assure") => ~button_clicked'[s]
          /\ outcome'[s] \in {"success", "conflict"} => ~button_clicked'[s]]_vars

\* C4 witness: a store ran to success after a click and the session is idle
\* again with the guard clear.
C4_Witness ==
    \E s \in Sessions :
        pc[s] = "idle" /\ outcome[s] = "success" /\ ~button_clicked[s] /\ upserts > 0

\* C5: every record's file_name names a file present in the image directory.
C5_RecordHasFile == \A i \in DOMAIN records : files[records[i].file_name] # NoFile

\* C5 witness: a store failed part-way (its file is on disk without a
\* record) while the collection holds a record.
C5_Witness ==
    /\ records # << >>
    /\ \E s \in Sessions :
        /\ outcome[s] = "exception"
        /\ files[uploaded_file[s][1]] # NoFile
        /\ uploaded_file[s][1] \notin FileNames

\* C6: a search that completes while the collection holds exactly one
\* record, indexed from a description equal to the query text, renders that
\* record's file name.
C6_RoundTrip ==
    [][\A s \in Sessions :
          (/\ pc[s] = "search"
           /\ pc'[s] = "idle"
           /\ result'[s] # Fault
           /\ Cardinality(DOMAIN records) = 1
           /\ \A i \in DOMAIN records : records[i].vector = get_embedding(search_image[s]))
          => \A i \in DOMAIN records : result'[s] = records[i].file_name]_vars

\* C6 witness: one record, the query equal to its description, its file shown.
C6_Witness ==
    \E s \in Sessions :
        /\ pc[s] = "idle"
        /\ search_image[s] # NoText
        /\ DOMAIN records = {1}
        /\ records[1].vector = get_embedding(search_image[s])
        /\ result[s] = records[1].file_name

\* C7: a call of assure_db_collection_exists by a session that has called
\* it before finds the collection, issues no create_collection, raises
\* nothing and leaves the collection and its records as they are.
C7_AssureIdempotent ==
    [][\A s \in Sessions :
          (pc[s] = "assure" /\ pc'[s] # "assure" /\ assure_calls[s] >= 1)
          => /\ collection_exists
             /\ pc'[s] = "add_tab"
             /\ collection_exists' = collection_exists
             /\ records' = records]_vars

\* C7 witness: a session's second call has returned.
C7_Witness ==
    \E s \in Sessions :
        assure_calls[s] = 2 /\ pc[s] = "add_tab" /\ collection_exists

\* C8: a search that completes while the collection holds at least one
\* record renders the file name of a record of the collection, never the
\* empty-list fault.
C8_SearchReturnsStoredName ==
    [][\A s \in Sessions :
          (/\ pc[s] = "search"
           /\ pc'[s] = "idle"
           /\ result'[s] # Fault
           /\ records # << >>)
          => \E i \in DOMAIN records : result'[s] = records[i].file_name]_vars

\* C8 witness: two records, a query that equals neither description, and a
\* stored file name shown all the same.
C8_Witness ==
    \E s \in Sessions :
        /\ pc[s] = "idle"
        /\ search_image[s] # NoText
        /\ Cardinality(DOMAIN records) >= 2
        /\ \A i \in DOMAIN records : records[i].vector # get_embedding(search_image[s])
        /\ result[s] \in FileNames

StorePcs == {"save", "write", "describe", "count", "embed", "upsert"}

\* C9 (as claimed): in a store, once the count has been read the embedding
\* has already been obtained.
C9_EmbedBeforeCount ==
    \A s \in Sessions :
        (pc[s] \in StorePcs /\ first_available_id[s] # 0) => query_vector[s] # NoVector

\* C9 (amended): the file is saved, then captioned, then the count is read,
\* then the caption is embedded, then the point is upserted: the embedding
\* is obtained between the count read and the upsert.
C9_StoreOrder ==
    \A s \in Sessions :
        /\ pc[s] \in {"describe", "count", "embed", "upsert"}
                => files[uploaded_file[s][1]] # NoFile
        /\ pc[s] \in {"save", "write", "describe"}
                => /\ image_description[s] = NoText
                   /\ first_available_id[s] = 0
                   /\ query_vector[s] = NoVector
        /\ pc[s] = "count"
                => /\ image_description[s] # NoText
                   /\ first_available_id[s] = 0
                   /\ query_vector[s] = NoVector
        /\ pc[s] = "embed"
                => /\ image_description[s] # NoText
                   /\ first_available_id[s] # 0
                   /\ query_vector[s] = NoVector
        /\ pc[s] = "upsert"
                => /\ image_description[s] # NoText
                   /\ first_available_id[s] # 0
                   /\ query_vector[s] # NoVector

\* C9 witness: a store has read the count and has yet to embed the caption.
C9_Witness ==
    \E s \in Sessions :
        /\ pc[s] = "embed"
        /\ first_available_id[s] # 0
        /\ query_vector[s] = NoVector
        /\ files[uploaded_file[s][1]] = uploaded_file[s][2]

\* C10: a successful upsert whose identifier is already in the collection
\* (its count was read before another session's upsert) adds no record: it
\* replaces the record of that identifier by its own, while the number of
\* successful stores grows.
C10_StaleIdReplaces ==
    [][\A s \in Sessions :
          (/\ pc[s] = "upsert"
           /\ pc'[s] = "assure"
           /\ first_available_id[s] \in DOMAIN records)
          => /\ DOMAIN records' = DOMAIN records
             /\ upserts' = upserts + 1
             /\ records'[first_available_id[s]].file_name = uploaded_file[s][1]
             /\ \A i \in DOMAIN records \ {first_available_id[s]} :
                    records'[i] = records[i]]_vars

\* C10 witness: two sessions stored different file names successfully, both
\* files are on disk, and the collection holds one record: one file has none.
C10_Witness ==
    \E s, t \in Sessions :
        /\ s # t
        /\ outcome[s] = "success" /\ outcome[t] = "success"
        /\ upserts = 2
        /\ uploaded_file[s][1] # uploaded_file[t][1]
        /\ files[uploaded_file[s][1]] = uploaded_file[s][2]
        /\ files[uploaded_file[t][1]] = uploaded_file[t][2]
        /\ Cardinality(DOMAIN records) = 1
        /\ uploaded_file[t][1] \in FileNames
        /\ uploaded_file[s][1] \notin FileNames

\* C11: nothing between the existence check and the write protects the
\* file: a store that has passed the check truncates the file when it opens
\* it, leaves its own bytes in it when it writes, is shown no conflict, and
\* its upsert records the upload's file name, whatever another session has
\* done to that file name since the check.
C11_UnlockedWrite ==
    [][\A s \in Sessions :
          /\ (pc[s] = "save" /\ pc'[s] # "save")
                => files'[uploaded_file[s][1]] = EmptyFile
          /\ (pc[s] = "write" /\ pc'[s] # "write")
                => /\ files'[uploaded_file[s][1]] = uploaded_file[s][2]
                   /\ outcome'[s] = "storing"
          /\ (pc[s] = "upsert" /\ pc'[s] = "assure")
                => records'[first_available_id[s]].file_name = uploaded_file[s][1]]_vars

\* C11 witness: two sessions stored different bytes under one file name,
\* both successfully; the file holds the bytes of one of them and two
\* records carry the name.
C11_Witness ==
    \E s, t \in Sessions :
        /\ s # t
        /\ outcome[s] = "success" /\ outcome[t] = "success"
        /\ uploaded_file[s][1] = uploaded_file[t][1]
        /\ uploaded_file[s][2] # uploaded_file[t][2]
        /\ files[uploaded_file[s][1]] = uploaded_file[t][2]
        /\ DOMAIN records = {1, 2}
        /\ \A i \in DOMAIN records : records[i].file_name = uploaded_file[s][1]

\* C12: no step of a store other than its successful upsert changes the
\* records, and the step at which the captioning, the count, the embedding
\* or the upsert raises ends the run with the file of the upload still in
\* the image directory, the files, the records and the number of upserts
\* unchanged.
C12_NoRollback ==
    [][\A s \in Sessions :
          /\ (pc[s] \in StorePcs /\ pc'[s] # pc[s] /\ pc'[s] # "assure")
                => records' = records /\ upserts' = upserts
          /\ (pc[s] \in {"describe", "count", "embed", "upsert"} /\ pc'[s] = "idle")
                => /\ outcome'[s] = "exception"
                   /\ files' = files
                   /\ files[uploaded_file[s][1]] # NoFile
                   /\ records' = records]_vars

\* C12 witness: a store failed: its bytes are on disk and no record carries
\* its file name.
C12_Witness ==
    \E s \in Sessions :
        /\ pc[s] = "idle"
        /\ outcome[s] = "exception"
        /\ files[uploaded_file[s][1]] = uploaded_file[s][2]
        /\ uploaded_file[s][1] \notin FileNames

\* C13: a run that ended in an unhandled failure of the store leaves
\* button_clicked True, the button having been drawn disabled; and any run
\* that reaches the store tab with the guard True and an upload selected
\* draws the button disabled.
C13_GuardStuck ==
    [][\A s \in Sessions :
          /\ outcome'[s] = "exception"
                => button_clicked'[s] /\ button_shown'[s] = "disabled"
          /\ (/\ pc[s] = "add_tab"
              /\ pc'[s] # "add_tab"
              /\ button_clicked[s]
              /\ uploaded_file[s] # NoUpload)
                => button_shown'[s] = "disabled"]_vars

\* C13 witness: the run after a failed store has drawn the button disabled,
\* the guard having been True at its start although nothing was clicked.
C13_Witness ==
    \E s \in Sessions :
        /\ pc[s] = "search_tab"
        /\ outcome[s] = "conflict"
        /\ button_shown[s] = "disabled"
        /\ upserts = 0
        /\ \A t \in Sessions \ {s} : pc[t] = "new"

\* A run of s, outside the store itself, that was not started by a click
\* and has the guard True, or has cleared it in the conflict branch, with
\* the selected upload's file on disk: the run after a store that failed
\* once its file was written.
RecoveryRun(s) ==
    /\ pc[s] \in {"assure", "create", "add_tab", "search_tab", "search"}
    /\ ~by_click[s]
    /\ uploaded_file[s] # NoUpload
    /\ files[uploaded_file[s][1]] # NoFile
    /\ (button_clicked[s] \/ outcome[s] = "conflict")

\* C14 (as claimed): the run after the failed store issues no call to the
\* vector store.
C14_RecoveryCallsNoVectorStore ==
    [][\A s \in Sessions :
          RecoveryRun(s)
          => ~(/\ pc[s] \in {"assure", "create", "count", "upsert", "search"}
               /\ pc'[s] # pc[s])]_vars

\* C14 (amended): the run after the failed store, the upload's file being
\* on disk, takes the conflict branch: it shows the error, clears the guard
\* and goes on to the search tab without a count or an upsert, files and
\* records unchanged; and no run starts a store for a file name that is on
\* disk, so resubmitting the name never indexes it.
C14_StuckGuardRecovers ==
    [][\A s \in Sessions :
          /\ (RecoveryRun(s) /\ pc[s] = "add_tab" /\ pc'[s] # "add_tab")
                => /\ outcome'[s] = "conflict"
                   /\ ~button_clicked'[s]
                   /\ pc'[s] = "search_tab"
                   /\ files' = files
                   /\ records' = records
                   /\ upserts' = upserts
          /\ (RecoveryRun(s) /\ pc'[s] # pc[s]) => pc'[s] \notin StorePcs
          /\ (pc[s] = "add_tab" /\ pc'[s] = "save")
                => files[uploaded_file[s][1]] = NoFile]_vars

\* C14 witness: after a failed store and a run not started by a click, the
\* conflict is shown, the guard is clear and the file has no record.
C14_Witness ==
    \E s \in Sessions :
        /\ pc[s] = "idle"
        /\ outcome[s] = "conflict"
        /\ ~by_click[s]
        /\ ~button_clicked[s]
        /\ files[uploaded_file[s][1]] # NoFile
        /\ uploaded_file[s][1] \notin FileNames

\* C15 (as claimed): a store (file written, record upserted) runs only in
\* response to a click on the button with that upload selected.
C15_StoreOnlyOnClick ==
    \A s \in Sessions : pc[s] \in StorePcs => by_click[s]

\* C16: with one session acting alone, no two records of the collection
\* carry the same file name.
C16_UniqueFileNames ==
    \A i, j \in DOMAIN records :
        records[i].file_name = records[j].file_name => i = j

\* C16 witness: two records, and a later submission of a stored name that
\* was turned down.
C16_Witness ==
    \E s \in Sessions :
        /\ Cardinality(DOMAIN records) >= 2
        /\ outcome[s] = "conflict"
        /\ uploaded_file[s][1] \in FileNames

\* C17: the identifiers in the collection are exactly 1..count, in every
\* interleaving of the sessions.
C17_ContiguousIds == DOMAIN records = 1..Cardinality(DOMAIN records)

\* C17 witness: one session has stored under id 1 and the other, having
\* read the count before that, is about to upsert under id 1 as well.
C17_Witness ==
    \E s, t \in Sessions :
        /\ s # t
        /\ pc[s] = "upsert"
        /\ first_available_id[s] = 1
        /\ outcome[t] = "success"
        /\ DOMAIN records = {1}

====
